---------------------------- MODULE Spec2Model ----------------------------
(***************************************************************************)
(* A model of django-notifications (the Murgeye fork): the Notification    *)
(* table, the NotificationQuerySet scopes and bulk mutators, the notify    *)
(* signal handler that fans one event out to its recipients, the web views *)
(* and the slug helpers.                                                   *)
(*                                                                         *)
(* The table is the function rows from the ids of the stored rows to their *)
(* column values.  Every operation is one action; what it answered (its    *)
(* return value, its result set, the exception it raised) and the table as *)
(* it was before the operation are kept in the variable last.              *)
(***************************************************************************)
EXTENDS Integers, Sequences, FiniteSets, TLC

VARIABLES
    SOFT_DELETE,    \* settings.get_config()["SOFT_DELETE"], fixed at startup
    EXTRA_DATA,     \* settings.get_config()["USE_JSONFIELD"], fixed at startup
    rows,           \* the notifications table: id -> column values
    next_id,        \* the AutoField sequence: the id the next INSERT gets
    now,            \* timezone.now(), in ticks
    last            \* the last operation: its arguments, its answer, the table before it

vars == <<SOFT_DELETE, EXTRA_DATA, rows, next_id, now, last>>

---------------------------------------------------------------------------
(* Bounds of the model.                                                    *)

\* The table never holds an id above MaxRows: notify is not called beyond it.
MaxRows == 2
\* The ids the slug round trip is tried on are 0..MaxSlugId.
MaxSlugId == 60

---------------------------------------------------------------------------
(* Values.                                                                 *)

\* Python's None where a string is expected (a column, a description).
None == "None"
\* Python's None where an object (target, action_object) is expected.
NoneObj == [model |-> "None", pk |-> "None"]

\* The ids of the users that exist.
UserIds == {1, 2}
User(i) == [is_authenticated |-> TRUE, id |-> i]
Users == {User(i) : i \in UserIds}
\* request.user of a request that carries no session.
AnonymousUser == [is_authenticated |-> FALSE, id |-> 0]

\* The model classes of the objects notifications refer to.  "vipcustomer" is a
\* proxy model of "customer"; the others are concrete.
ConcreteModel(m) == IF m = "vipcustomer" THEN "customer" ELSE m

\* ContentType.objects.get_for_model(obj, for_concrete_model=fcm): the content
\* type (named by its model) of the object's concrete model, or of its own.
get_for_model(obj, fcm) == IF fcm THEN ConcreteModel(obj.model) ELSE obj.model

---------------------------------------------------------------------------
(* Dictionaries (keyword arguments, the data column).                      *)

EmptyDict == [k \in {} |-> TRUE]
\* dict.pop(key, default): the value ...
PopValue(d, key, default) == IF key \in DOMAIN d THEN d[key] ELSE default
\* ... and the dictionary that is left.
PopRest(d, key) == [k \in (DOMAIN d) \ {key} |-> d[k]]
Merge(d, e) == [k \in (DOMAIN d) \cup (DOMAIN e) |-> IF k \in DOMAIN e THEN e[k] ELSE d[k]]


---------------------------------------------------------------------------
(* The Notification model (AbstractNotification).                          *)

\* Notification(**fields): the columns' defaults, then the fields given.
\* target, action_object, description and data are null until set.
Notification(fields) ==
    Merge([level |-> "info",
           recipient |-> 0,
           unread |-> TRUE,
           actor_content_type |-> None,
           actor_object_id |-> None,
           verb |-> None,
           description |-> None,
           target_content_type |-> None,
           target_object_id |-> None,
           action_object_content_type |-> None,
           action_object_object_id |-> None,
           timestamp |-> now,
           public |-> TRUE,
           deleted |-> FALSE,
           emailed |-> FALSE,
           data |-> {}],
          fields)

\* hasattr(newnotify, key) for the keys the model passes: the columns are
\* attributes, any other key tried here is not.
hasattr(newnotify, key) == key \in DOMAIN newnotify

\* A database: the table and its id sequence.
\* save() of a new instance: INSERT under the next id of the sequence.
save(db, newnotify) ==
    [rows |-> [i \in (DOMAIN db.rows) \cup {db.next_id} |->
                  IF i = db.next_id THEN newnotify ELSE db.rows[i]],
     next_id |-> db.next_id + 1]

---------------------------------------------------------------------------
(* notify_handler.                                                         *)

\* The names "%s_object_id" % opt, "%s_content_type" % opt and
\* f"{opt}_for_concrete_model" of the loop over the optional objects.
ObjectIdField(opt) ==
    IF opt = "target" THEN "target_object_id" ELSE "action_object_object_id"
ContentTypeField(opt) ==
    IF opt = "target" THEN "target_content_type" ELSE "action_object_content_type"
ForConcreteModelKey(opt) ==
    IF opt = "target" THEN "target_for_concrete_model"
    ELSE "action_object_for_concrete_model"

\* optional_objs = [(kwargs.pop(opt, None), opt) for opt in ("target", "action_object")]
optional_objs(kwargs) ==
    << [obj |-> PopValue(kwargs, "target", NoneObj), opt |-> "target"],
       [obj |-> PopValue(kwargs, "action_object", NoneObj), opt |-> "action_object"] >>

\* The recipient argument as a list of user ids: a Group gives its members, a
\* list or a queryset its elements, anything else is one user.
RecipientIds(recipient) ==
    LET recipients ==
            IF recipient.kind = "group" THEN recipient.user_set
            ELSE IF recipient.kind \in {"queryset", "list"} THEN recipient.items
            ELSE << recipient.user >>
    IN  [i \in 1..Len(recipients) |-> recipients[i].id]

\* One pass of "for obj, opt in optional_objs" on it = [kwargs, newnotify]: the
\* flag is popped from the handler's kwargs, so that a later recipient's pass
\* finds it gone and takes the default.
SetOptionalObject(it, o) ==
    IF o.obj = NoneObj THEN it
    ELSE LET for_concrete_model ==
                 PopValue(it.kwargs, ForConcreteModelKey(o.opt), TRUE)
         IN  [kwargs |-> PopRest(it.kwargs, ForConcreteModelKey(o.opt)),
              newnotify |->
                  [it.newnotify EXCEPT
                      ![ObjectIdField(o.opt)] = o.obj.pk,
                      ![ContentTypeField(o.opt)] =
                          get_for_model(o.obj, for_concrete_model)]]

\* "if kwargs and EXTRA_DATA:"
ExtraDataApplies(kwargs) == DOMAIN kwargs # {} /\ EXTRA_DATA

\* The extra keys: those naming an attribute are set on the instance, what is
\* left of a copy of kwargs becomes the data column.
SetExtraData(it) ==
    IF ExtraDataApplies(it.kwargs)
    THEN LET columns == {key \in DOMAIN it.kwargs : hasattr(it.newnotify, key)}
             kwargs_copy == [key \in (DOMAIN it.kwargs) \ columns |-> it.kwargs[key]]
             withColumns == [f \in DOMAIN it.newnotify |->
                                IF f \in columns THEN it.kwargs[f] ELSE it.newnotify[f]]
         IN  [it EXCEPT !.newnotify = [withColumns EXCEPT !.data = {kwargs_copy}]]
    ELSE it

\* The body of "for recipient in recipients" up to save(): the instance built
\* for one recipient and the handler's kwargs after it.
BuildNotification(c, recipient, kwargs) ==
    LET newnotify ==
            Notification(
                [recipient |-> recipient,
                 actor_content_type |->
                     get_for_model(c.actor, c.actor_for_concrete_model),
                 actor_object_id |-> c.actor.pk,
                 verb |-> c.verb,
                 public |-> c.public,
                 description |-> c.description,
                 timestamp |-> c.timestamp,
                 level |-> c.level])
        it0 == [kwargs |-> kwargs, newnotify |-> newnotify]
        it1 == SetOptionalObject(it0, c.optional_objs[1])
        it2 == SetOptionalObject(it1, c.optional_objs[2])
    IN  SetExtraData(it2)

\* The loop from recipient number i on.  st = [kwargs, db, new_notifications,
\* error]; fail_at is the number of the recipient whose save() raises (0: none
\* does).  The exception leaves the loop: the rows saved before it stay.
RECURSIVE FanOut(_, _, _, _, _)
FanOut(c, recipients, i, fail_at, st) ==
    IF i > Len(recipients) THEN st
    ELSE LET it == BuildNotification(c, recipients[i], st.kwargs)
         IN  IF i = fail_at
             THEN [st EXCEPT !.kwargs = it.kwargs, !.error = "DatabaseError"]
             ELSE FanOut(c, recipients, i + 1, fail_at,
                         [kwargs |-> it.kwargs,
                          db |-> save(st.db, it.newnotify),
                          new_notifications |->
                              Append(st.new_notifications, st.db.next_id),
                          error |-> None])

\* The options pulled out of kwargs before the loop, and what is left of kwargs.
PulledOptions(verb, kwargs) ==
    [recipient |-> kwargs["recipient"],
     actor |-> kwargs["sender"],
     optional_objs |-> optional_objs(kwargs),
     public |-> PopValue(kwargs, "public", TRUE),
     description |-> PopValue(kwargs, "description", None),
     timestamp |-> PopValue(kwargs, "timestamp", now),
     level |-> PopValue(kwargs, "level", "info"),
     actor_for_concrete_model |-> PopValue(kwargs, "actor_for_concrete_model", TRUE),
     verb |-> verb]
PulledKeys ==
    {"signal", "recipient", "sender", "target", "action_object", "public",
     "description", "timestamp", "level", "actor_for_concrete_model"}
RestOfKwargs(kwargs) == [k \in (DOMAIN kwargs) \ PulledKeys |-> kwargs[k]]

\* The handler as it would be with the loop in one transaction: a save() that
\* raises takes the rows saved before it away.
notify_handler_Atomic(verb, kwargs, db, fail_at) ==
    LET c == PulledOptions(verb, kwargs)
        out == FanOut(c, RecipientIds(c.recipient), 1, fail_at,
                      [kwargs |-> RestOfKwargs(kwargs),
                       db |-> db,
                       new_notifications |-> << >>,
                       error |-> None])
    IN  IF out.error # None THEN [out EXCEPT !.db = db] ELSE out

\* notify_handler(verb, **kwargs) on the database db: [kwargs, db,
\* new_notifications, error].
notify_handler(verb, kwargs, db, fail_at) ==
    LET c == PulledOptions(verb, kwargs)
    IN  FanOut(c, RecipientIds(c.recipient), 1, fail_at,
               [kwargs |-> RestOfKwargs(kwargs),
                db |-> db,
                new_notifications |-> << >>,
                error |-> None])

---------------------------------------------------------------------------
(* The state after startup, and notify.send().                             *)

EmptyTable == [i \in {} |-> Notification(EmptyDict)]

Init ==
    /\ SOFT_DELETE \in BOOLEAN
    /\ EXTRA_DATA \in BOOLEAN
    /\ rows = EmptyTable
    /\ next_id = 1
    /\ now = 1
    /\ last = [op |-> "startup", pre |-> EmptyTable]

\* The objects the calls refer to.
Sender == [model |-> "user", pk |-> "1"]
Customer == [model |-> "customer", pk |-> "7"]
VipCustomer == [model |-> "vipcustomer", pk |-> "7"]

\* The recipient arguments tried: one user, a list (empty, of two users, with a
\* user twice) and a group of both users.
OneUser(u) == [kind |-> "user", user |-> u]
UserList(items) == [kind |-> "list", items |-> items]
Group(user_set) == [kind |-> "group", user_set |-> user_set]
RecipientArgs ==
    {OneUser(User(1)), UserList(<< >>), UserList(<<User(1), User(2)>>),
     UserList(<<User(2), User(2)>>), Group(<<User(2), User(1)>>)}

\* The other keyword arguments tried: references with and without their
\* for_concrete_model flag, the overrides, and extra keys, of which "emailed"
\* names a column and "foo" does not.
MoreArgs ==
    {EmptyDict,
     [target |-> VipCustomer],
     [target |-> VipCustomer, target_for_concrete_model |-> FALSE],
     [action_object |-> VipCustomer, action_object_for_concrete_model |-> FALSE],
     [target |-> Customer, description |-> "text", level |-> "warning", public |-> FALSE],
     [emailed |-> TRUE],
     [foo |-> TRUE],
     [emailed |-> TRUE, foo |-> TRUE],
     [target |-> VipCustomer, target_for_concrete_model |-> FALSE, foo |-> TRUE]}

\* notify.send(sender, verb=..., recipient=..., **more)
Send(verb, recipient, more) ==
    [verb |-> verb, kwargs |-> Merge([sender |-> Sender, recipient |-> recipient], more)]
\* Every call tried on the handler alone ...
Calls ==
    {Send("commented", r, more) : r \in RecipientArgs, more \in MoreArgs}
\* ... and the calls that fill the table for the scopes and the views.
PlainCalls ==
    {Send("commented", r, EmptyDict) :
        r \in {OneUser(User(1)), UserList(<<User(1), User(2)>>)}}

\* One notify.send(): the handler runs to its end and returns its list, or to
\* the save() that raises, and then returns nothing.  The table stays within
\* MaxRows ids and the clock within MaxRows ticks.
Notify(call, fail_at) ==
    LET n == Len(RecipientIds(call.kwargs["recipient"]))
        out == notify_handler(call.verb, call.kwargs,
                              [rows |-> rows, next_id |-> next_id], fail_at)
    IN  /\ fail_at \in 0..n
        /\ next_id + n - 1 <= MaxRows
        /\ now <= MaxRows
        /\ rows' = out.db.rows
        /\ next_id' = out.db.next_id
        /\ now' = now + 1
        /\ last' = [op |-> "notify", call |-> call, fail_at |-> fail_at,
                    error |-> out.error,
                    new_notifications |->
                        IF out.error = None THEN out.new_notifications ELSE << >>,
                    pre |-> rows]
        /\ UNCHANGED <<SOFT_DELETE, EXTRA_DATA>>

NotifyNext == \E call \in Calls, fail_at \in 0..MaxRows : Notify(call, fail_at)

\* The handler alone, on every call of Calls.
NotifySpec == Init /\ [][NotifyNext]_vars

---------------------------------------------------------------------------
(* NotificationQuerySet.  A queryset is the set of the ids of its rows.    *)

is_soft_delete == SOFT_DELETE

\* Notification.objects.all() and Notification.objects.filter(recipient=u).
AllObjects == DOMAIN rows
\* The filter as it would be without the recipient condition.
FilterRecipient_Everyone(qs, user_id) == qs

FilterRecipient(qs, user_id) == {id \in qs : rows[id].recipient = user_id}

unsent(qs) == {id \in qs : rows[id].emailed = FALSE}
sent(qs) == {id \in qs : rows[id].emailed = TRUE}

\* unread() as it would be if it hid the deleted rows whatever include_deleted.
unread_HidesDeletedAlways(qs, include_deleted) ==
    IF is_soft_delete
    THEN {id \in qs : rows[id].unread = TRUE /\ rows[id].deleted = FALSE}
    ELSE {id \in qs : rows[id].unread = TRUE}

unread(qs, include_deleted) ==
    IF is_soft_delete /\ ~include_deleted
    THEN {id \in qs : rows[id].unread = TRUE /\ rows[id].deleted = FALSE}
    ELSE {id \in qs : rows[id].unread = TRUE}

read(qs, include_deleted) ==
    IF is_soft_delete /\ ~include_deleted
    THEN {id \in qs : rows[id].unread = FALSE /\ rows[id].deleted = FALSE}
    ELSE {id \in qs : rows[id].unread = FALSE}

\* deleted() and active() after assert_soft_delete() has let them pass.
deleted(qs) == {id \in qs : rows[id].deleted = TRUE}
active(qs) == {id \in qs : rows[id].deleted = FALSE}

\* The recipient argument of the bulk mutators: a user, or None.
NoRecipient == [is_authenticated |-> FALSE, id |-> 0]
\* "if recipient: qset = qset.filter(recipient=recipient.id)"
ForRecipient(qset, recipient) ==
    IF recipient # NoRecipient THEN FilterRecipient(qset, recipient.id) ELSE qset

\* qset.update(field=value): one UPDATE statement; the table after it and the
\* number of rows it matched.
update(qset, field, value) ==
    [rows |-> [id \in DOMAIN rows |->
                  IF id \in qset THEN [rows[id] EXCEPT ![field] = value] ELSE rows[id]],
     count |-> Cardinality(qset)]

\* mark_all_as_read's rows as they would be without the filter on recipient.
MarkAllAsReadSet_AnyRecipient(qs, recipient) == unread(qs, TRUE)

\* mark_all_as_unread's rows as they would be if read() hid the soft-deleted.
MarkAllAsUnreadSet_ActiveOnly(qs, recipient) == ForRecipient(read(qs, FALSE), recipient)

\* The rows each bulk mutator updates.
MarkAllAsReadSet(qs, recipient) == ForRecipient(unread(qs, TRUE), recipient)
MarkAllAsUnreadSet(qs, recipient) == ForRecipient(read(qs, TRUE), recipient)
MarkAllAsDeletedSet(qs, recipient) == ForRecipient(active(qs), recipient)
MarkAllAsActiveSet(qs, recipient) == ForRecipient(deleted(qs), recipient)
MarkAsUnsentSet(qs, recipient) == ForRecipient(sent(qs), recipient)
MarkAsSentSet(qs, recipient) == ForRecipient(unsent(qs), recipient)

\* The querysets the scopes and mutators are called on: Notification.objects
\* itself (no recipient named) and its filter on each recipient.
BaseFilters == {[recipient |-> {}]} \cup {[recipient |-> {u}] : u \in UserIds}
QuerySet(base) ==
    {id \in AllObjects : base.recipient = {} \/ rows[id].recipient \in base.recipient}
BaseQuerySets == {QuerySet(base) : base \in BaseFilters}
\* The recipient arguments of the bulk mutators.
RecipientParams == {NoRecipient} \cup Users

\* A scope accessor answered with a queryset: nothing is written.
Scoped(op, qs, include_deleted, result) ==
    /\ last' = [op |-> op, qs |-> qs, include_deleted |-> include_deleted,
                error |-> None, result |-> result, pre |-> rows]
    /\ UNCHANGED <<SOFT_DELETE, EXTRA_DATA, rows, next_id, now>>

\* A bulk mutator ran its UPDATE and returned its count.
Updated(op, qs, recipient, out) ==
    /\ rows' = out.rows
    /\ last' = [op |-> op, qs |-> qs, recipient |-> recipient,
                error |-> None, count |-> out.count, pre |-> rows]
    /\ UNCHANGED <<SOFT_DELETE, EXTRA_DATA, next_id, now>>

\* assert_soft_delete() raised: the operation did nothing else.
Raised(op, qs, recipient, error) ==
    /\ last' = [op |-> op, qs |-> qs, recipient |-> recipient,
                error |-> error, pre |-> rows]
    /\ UNCHANGED <<SOFT_DELETE, EXTRA_DATA, rows, next_id, now>>

\* assert_soft_delete() as it would be if it never raised.
assert_soft_delete_Never == None

\* assert_soft_delete(): the exception it raises, if any.
assert_soft_delete == IF ~is_soft_delete THEN "ImproperlyConfigured" ELSE None

Unsent(qs) == Scoped("unsent", qs, FALSE, unsent(qs))
Sent(qs) == Scoped("sent", qs, FALSE, sent(qs))
Unread(qs, include_deleted) == Scoped("unread", qs, include_deleted, unread(qs, include_deleted))
Read(qs, include_deleted) == Scoped("read", qs, include_deleted, read(qs, include_deleted))

MarkAllAsRead(qs, recipient) ==
    Updated("mark_all_as_read", qs, recipient,
            update(MarkAllAsReadSet(qs, recipient), "unread", FALSE))

MarkAllAsUnread(qs, recipient) ==
    Updated("mark_all_as_unread", qs, recipient,
            update(MarkAllAsUnreadSet(qs, recipient), "unread", TRUE))

Deleted(qs) ==
    IF assert_soft_delete # None
    THEN Raised("deleted", qs, NoRecipient, assert_soft_delete)
    ELSE Scoped("deleted", qs, FALSE, deleted(qs))

Active(qs) ==
    IF assert_soft_delete # None
    THEN Raised("active", qs, NoRecipient, assert_soft_delete)
    ELSE Scoped("active", qs, FALSE, active(qs))

MarkAllAsDeleted(qs, recipient) ==
    IF assert_soft_delete # None
    THEN Raised("mark_all_as_deleted", qs, recipient, assert_soft_delete)
    ELSE Updated("mark_all_as_deleted", qs, recipient,
                 update(MarkAllAsDeletedSet(qs, recipient), "deleted", TRUE))

MarkAllAsActive(qs, recipient) ==
    IF assert_soft_delete # None
    THEN Raised("mark_all_as_active", qs, recipient, assert_soft_delete)
    ELSE Updated("mark_all_as_active", qs, recipient,
                 update(MarkAllAsActiveSet(qs, recipient), "deleted", FALSE))

MarkAsUnsent(qs, recipient) ==
    Updated("mark_as_unsent", qs, recipient,
            update(MarkAsUnsentSet(qs, recipient), "emailed", FALSE))

MarkAsSent(qs, recipient) ==
    Updated("mark_as_sent", qs, recipient,
            update(MarkAsSentSet(qs, recipient), "emailed", TRUE))

QuerySetNext ==
    \E base \in BaseFilters :
        \/ Unsent(QuerySet(base))
        \/ Sent(QuerySet(base))
        \/ \E include_deleted \in BOOLEAN : Unread(QuerySet(base), include_deleted)
        \/ \E include_deleted \in BOOLEAN : Read(QuerySet(base), include_deleted)
        \/ Deleted(QuerySet(base))
        \/ Active(QuerySet(base))
        \/ \E recipient \in RecipientParams :
              \/ MarkAllAsRead(QuerySet(base), recipient)
              \/ MarkAllAsUnread(QuerySet(base), recipient)
              \/ MarkAllAsDeleted(QuerySet(base), recipient)
              \/ MarkAllAsActive(QuerySet(base), recipient)
              \/ MarkAsUnsent(QuerySet(base), recipient)
              \/ MarkAsSent(QuerySet(base), recipient)

---------------------------------------------------------------------------
(* utils: the slugs.                                                       *)

\* slug2id with another offset than id2slug's.
slug2id_OtherOffset(slug) == slug - 110908

\* int(slug) - 110909: the slugs here are integers already, as id2slug returns
\* them and as the views are given them.
slug2id(slug) == slug - 110909
id2slug(notification_id) == notification_id + 110909

---------------------------------------------------------------------------
(* The views.                                                              *)

\* A value given to a lookup on the recipient column: a number, or an object.
Number(i) == [type |-> "int", value |-> i]
Object(u) == [type |-> "User", value |-> u]

\* get_object_or_404(Notification, recipient=..., id=notification_id): the
\* recipient column is an IntegerField, whose lookup takes int(value); of a
\* user object that raises TypeError.  Otherwise the one row matched, or
\* Http404 when there is none.  Answers [error, found].
get_object_or_404(recipient, notification_id) ==
    IF recipient.type # "int"
    THEN [error |-> "TypeError", found |-> {}]
    ELSE LET found == {id \in FilterRecipient(AllObjects, recipient.value) :
                          id = notification_id}
         IN  [error |-> IF found = {} THEN "Http404" ELSE None, found |-> found]

\* Model.save() of a loaded instance: UPDATE of its row.
save_instance(id, instance) == [rows EXCEPT ![id] = instance]
\* delete() as it would be on the recipient's whole queryset.
delete_instance_OfRecipient(id) ==
    [i \in {j \in DOMAIN rows : rows[j].recipient # rows[id].recipient} |-> rows[i]]

\* Model.delete(): the row is gone.
delete_instance(id) == [i \in (DOMAIN rows) \ {id} |-> rows[i]]

\* AbstractNotification.mark_as_read / mark_as_unread on the row id: the table
\* after it.
mark_as_read(id) ==
    IF rows[id].unread THEN save_instance(id, [rows[id] EXCEPT !.unread = FALSE])
    ELSE rows
mark_as_unread(id) ==
    IF ~rows[id].unread THEN save_instance(id, [rows[id] EXCEPT !.unread = TRUE])
    ELSE rows

\* The slug argument of a view: << >> for None, <<slug>> otherwise.  The slugs
\* tried are those of the ids 0..MaxRows + 1 and a number below the offset.
SlugArgs == {<< >>, <<5>>} \cup {<<id2slug(i)>> : i \in 0..(MaxRows + 1)}
Requesters == Users \cup {AnonymousUser}

\* A view answered: response is "redirect", "login" (login_required sent the
\* anonymous request away), "ok" or the exception that left the view.  Where
\* a redirect leads (the "next" parameter or the default route) is not part
\* of the model: it reads and writes no row.
Responded(op, user, slug, response, table, result) ==
    /\ rows' = table
    /\ last' = [op |-> op, user |-> user, slug |-> slug, response |-> response,
                result |-> result, pre |-> rows]
    /\ UNCHANGED <<SOFT_DELETE, EXTRA_DATA, next_id, now>>

\* The orders in which a queryset ordered by ("-timestamp",) can come back.
Ordered(qs) ==
    {s \in [1..Cardinality(qs) -> qs] :
        /\ \A i, j \in 1..Cardinality(qs) : i # j => s[i] # s[j]
        /\ \A i, j \in 1..Cardinality(qs) :
               i < j => rows[s[i]].timestamp >= rows[s[j]].timestamp}

\* AllNotificationsList.get_queryset: under SOFT_DELETE the filter names
\* "active", which is no field of the model: FieldError.
AllNotificationsList(user) ==
    IF ~user.is_authenticated
    THEN Responded("all", user, << >>, "login", rows, << >>)
    ELSE IF SOFT_DELETE
    THEN Responded("all", user, << >>, "FieldError", rows, << >>)
    ELSE \E result \in Ordered(FilterRecipient(AllObjects, user.id)) :
             Responded("all", user, << >>, "ok", rows, result)

\* UnreadNotificationsList.get_queryset
UnreadNotificationsList(user) ==
    IF ~user.is_authenticated
    THEN Responded("unread_list", user, << >>, "login", rows, << >>)
    ELSE \E result \in Ordered({id \in FilterRecipient(AllObjects, user.id) :
                                   rows[id].unread = TRUE}) :
             Responded("unread_list", user, << >>, "ok", rows, result)

\* views.mark_all_as_read
MarkAllAsReadView(user) ==
    IF ~user.is_authenticated
    THEN Responded("mark_all_as_read_view", user, << >>, "login", rows, << >>)
    ELSE LET notifications == FilterRecipient(AllObjects, user.id)
             out == update(MarkAllAsReadSet(notifications, NoRecipient), "unread", FALSE)
         IN  Responded("mark_all_as_read_view", user, << >>, "redirect", out.rows, << >>)

\* views.delete_all: NotificationQuerySet has no delete_all, the call raises
\* AttributeError and nothing is written.
DeleteAllView(user) ==
    IF ~user.is_authenticated
    THEN Responded("delete_all", user, << >>, "login", rows, << >>)
    ELSE Responded("delete_all", user, << >>, "AttributeError", rows, << >>)

\* views.mark_as_read: the lookup is given request.user itself.
MarkAsReadView(user, slug) ==
    IF ~user.is_authenticated
    THEN Responded("mark_as_read", user, slug, "login", rows, << >>)
    ELSE IF slug = << >>
    THEN Responded("mark_as_read", user, slug, "Http404", rows, << >>)
    ELSE LET notification == get_object_or_404(Object(user), slug2id(slug[1]))
         IN  IF notification.error # None
             THEN Responded("mark_as_read", user, slug, notification.error, rows, << >>)
             ELSE \E id \in notification.found :
                      Responded("mark_as_read", user, slug, "redirect",
                                mark_as_read(id), << >>)

\* views.mark_as_unread
MarkAsUnreadView(user, slug) ==
    IF ~user.is_authenticated
    THEN Responded("mark_as_unread", user, slug, "login", rows, << >>)
    ELSE IF slug = << >>
    THEN Responded("mark_as_unread", user, slug, "Http404", rows, << >>)
    ELSE LET notification == get_object_or_404(Number(user.id), slug2id(slug[1]))
         IN  IF notification.error # None
             THEN Responded("mark_as_unread", user, slug, notification.error, rows, << >>)
             ELSE \E id \in notification.found :
                      Responded("mark_as_unread", user, slug, "redirect",
                                mark_as_unread(id), << >>)

\* views.delete: the flag under SOFT_DELETE, the row otherwise.
DeleteView(user, slug) ==
    IF ~user.is_authenticated
    THEN Responded("delete", user, slug, "login", rows, << >>)
    ELSE IF slug = << >>
    THEN Responded("delete", user, slug, "Http404", rows, << >>)
    ELSE LET notification == get_object_or_404(Number(user.id), slug2id(slug[1]))
         IN  IF notification.error # None
             THEN Responded("delete", user, slug, notification.error, rows, << >>)
             ELSE \E id \in notification.found :
                      Responded("delete", user, slug, "redirect",
                                IF SOFT_DELETE
                                THEN save_instance(id, [rows[id] EXCEPT !.deleted = TRUE])
                                ELSE delete_instance(id),
                                << >>)

\* views.live_unread_notification_count and live_all_notification_count: the
\* JSON answers, 0 for a request that is not authenticated.
LiveUnreadNotificationCount(user) ==
    Responded("live_unread_notification_count", user, << >>, "ok", rows,
              IF ~user.is_authenticated THEN <<0>>
              ELSE <<Cardinality({id \in FilterRecipient(AllObjects, user.id) :
                                     rows[id].unread = TRUE})>>)
LiveAllNotificationCount(user) ==
    Responded("live_all_notification_count", user, << >>, "ok", rows,
              IF ~user.is_authenticated THEN <<0>>
              ELSE <<Cardinality(FilterRecipient(AllObjects, user.id))>>)

\* notifications.helpers.get_notification_list(request, method_name): the
\* module is not part of the sources at hand; by the specification it is the
\* rendered list of the requesting user's notifications, the unread ones for
\* "unread", and it writes nothing.
get_notification_list(user, method_name) ==
    Ordered({id \in FilterRecipient(AllObjects, user.id) :
                method_name = "unread" => rows[id].unread = TRUE})

\* views.live_unread_notification_list and live_all_notification_list: the
\* count and the list, 0 and [] for a request that is not authenticated.
LiveUnreadNotificationList(user) ==
    IF ~user.is_authenticated
    THEN Responded("live_unread_notification_list", user, << >>, "ok", rows,
                   <<0, << >> >>)
    ELSE \E unread_list \in get_notification_list(user, "unread") :
             Responded("live_unread_notification_list", user, << >>, "ok", rows,
                       <<Cardinality({id \in FilterRecipient(AllObjects, user.id) :
                                         rows[id].unread = TRUE}),
                         unread_list>>)
LiveAllNotificationList(user) ==
    IF ~user.is_authenticated
    THEN Responded("live_all_notification_list", user, << >>, "ok", rows,
                   <<0, << >> >>)
    ELSE \E all_list \in get_notification_list(user, "all") :
             Responded("live_all_notification_list", user, << >>, "ok", rows,
                       <<Cardinality(FilterRecipient(AllObjects, user.id)),
                         all_list>>)

ViewNext ==
    \E user \in Requesters :
        \/ AllNotificationsList(user)
        \/ UnreadNotificationsList(user)
        \/ MarkAllAsReadView(user)
        \/ DeleteAllView(user)
        \/ LiveUnreadNotificationCount(user)
        \/ LiveUnreadNotificationList(user)
        \/ LiveAllNotificationList(user)
        \/ LiveAllNotificationCount(user)
        \/ \E slug \in SlugArgs :
              \/ MarkAsReadView(user, slug)
              \/ MarkAsUnreadView(user, slug)
              \/ DeleteView(user, slug)

\* The calls that fill the table for the scopes and the views: no save()
\* fails in them.
PlainNotify == \E call \in PlainCalls : Notify(call, 0)

\* The scopes and the views read no EXTRA_DATA and the plain calls pass no
\* extra key: their specifications start with the payload mode off.
PayloadOff == Init /\ EXTRA_DATA = FALSE

\* A call that, with the payload mode on, stores rows with emailed set.
EmailedNotify ==
    Notify(Send("commented", UserList(<<User(1), User(2)>>), [emailed |-> TRUE]), 0)

\* The views, on the tables notify fills.
Next == PlainNotify \/ EmailedNotify \/ ViewNext
Spec == Init /\ [][Next]_vars

\* The queryset API, on the tables notify fills.
QuerySetStep == PlainNotify \/ QuerySetNext
QuerySetSpec == PayloadOff /\ [][QuerySetStep]_vars

---------------------------------------------------------------------------
(* Claims about notify.                                                    *)

Range(seq) == {seq[i] : i \in 1..Len(seq)}

\* The columns every row of one call is said to share.
SharedColumns ==
    {"verb", "actor_content_type", "actor_object_id", "target_content_type",
     "target_object_id", "action_object_content_type", "action_object_object_id",
     "timestamp", "level", "public", "description"}

\* A notify call that ran to its end.
NotifyReturned == last.op = "notify" /\ last.error = None

\* C1: a notify() call whose recipient resolves to n users persists and returns
\* exactly n new rows, one per resolved recipient in order, with recipient set
\* to that user's id, and all n rows carry the same verb, actor, target and
\* action_object reference, timestamp, level, public and description.
C1_FanOutSharesReferences ==
    NotifyReturned =>
        LET recipients == RecipientIds(last.call.kwargs["recipient"])
            new == last.new_notifications
        IN  /\ Len(new) = Len(recipients)
            /\ \A i, j \in 1..Len(new) : i # j => new[i] # new[j]
            /\ Range(new) \cap DOMAIN last.pre = {}
            /\ DOMAIN rows = (DOMAIN last.pre) \cup Range(new)
            /\ \A id \in DOMAIN last.pre : rows[id] = last.pre[id]
            /\ \A i \in 1..Len(new) : rows[new[i]].recipient = recipients[i]
            /\ \A i, j \in 1..Len(new) : \A f \in SharedColumns :
                   rows[new[i]][f] = rows[new[j]][f]

\* The keyword keys the handler does not know: neither an option it pulls nor
\* a for_concrete_model flag.
ExtraKeys(kwargs) ==
    (DOMAIN kwargs) \ (PulledKeys \cup {"target_for_concrete_model",
                                        "action_object_for_concrete_model"})

\* C9: every extra keyword key that names an attribute of the model is written
\* to that attribute on every recipient's row, in both payload modes; the
\* remaining keys are stored in the row's data when the payload mode is on and
\* are discarded (data stays empty) when it is off.
C9_ExtraKeysInBothModes ==
    NotifyReturned =>
        LET kwargs == last.call.kwargs
            new == last.new_notifications
        IN  \A i \in 1..Len(new) :
                LET row == rows[new[i]]
                    columns == {key \in ExtraKeys(kwargs) : hasattr(row, key)}
                    remaining == [key \in ExtraKeys(kwargs) \ columns |-> kwargs[key]]
                IN  /\ \A key \in columns : row[key] = kwargs[key]
                    /\ IF EXTRA_DATA /\ ExtraKeys(kwargs) # {}
                       THEN row.data = {remaining}
                       ELSE row.data = {}

\* C11: in a notify() call with several recipients and a target (or
\* action_object) passed with its for_concrete_model flag set to false, every
\* recipient's row resolves the reference with that flag, so the content type
\* stored on the first recipient's row is the one stored on every later row.
C11_ForConcreteModelOnEveryRow ==
    NotifyReturned =>
        LET kwargs == last.call.kwargs
            new == last.new_notifications
        IN  \A opt \in {"target", "action_object"} :
                (/\ opt \in DOMAIN kwargs
                 /\ ForConcreteModelKey(opt) \in DOMAIN kwargs
                 /\ kwargs[ForConcreteModelKey(opt)] = FALSE)
                    => \A i \in 1..Len(new) :
                           /\ rows[new[i]][ContentTypeField(opt)] =
                                  get_for_model(kwargs[opt], FALSE)
                           /\ rows[new[i]][ContentTypeField(opt)] =
                                  rows[new[1]][ContentTypeField(opt)]

\* C12: the fan-out writes one row per recipient in recipient order and is not
\* atomic: when the save() for recipient number k raises, the rows of the
\* recipients before k stay stored, under the next k - 1 ids, no row exists for
\* recipient k and those after it, the rows stored before the call are as they
\* were, and the call ends with the exception and returns no list.
C12_PartialFanOut ==
    (last.op = "notify" /\ last.fail_at >= 1) =>
        LET recipients == RecipientIds(last.call.kwargs["recipient"])
            k == last.fail_at
            written == (DOMAIN rows) \ (DOMAIN last.pre)
        IN  /\ last.error # None
            /\ last.new_notifications = << >>
            /\ DOMAIN last.pre \subseteq DOMAIN rows
            /\ \A id \in DOMAIN last.pre : rows[id] = last.pre[id]
            /\ written = (next_id - (k - 1))..(next_id - 1)
            /\ \A i \in 1..(k - 1) :
                   rows[next_id - k + i].recipient = recipients[i]

\* C12's case: the save() for the second of two recipients raised, after the
\* row of the first was stored.
C12_Witness ==
    /\ last.op = "notify"
    /\ last.fail_at = 2
    /\ last.error # None
    /\ (DOMAIN rows) \ (DOMAIN last.pre) # {}

---------------------------------------------------------------------------
(* Claims about the queryset API.                                          *)

\* The rows whose unread flag the last operation turned from true to false.
FlippedToRead ==
    {id \in (DOMAIN last.pre) \cap (DOMAIN rows) :
        last.pre[id].unread = TRUE /\ rows[id].unread = FALSE}

\* C2: with soft-delete mode on, mark_all_as_read sets unread=false on every
\* row of the queryset (of the recipient, when one is passed) that was unread
\* and not deleted, leaves every already-read row unchanged, flips rows of the
\* queryset and of that recipient only, and returns the number of rows it
\* flipped; the same call made again returns 0 and changes nothing.
C2_MarkAllAsRead ==
    (SOFT_DELETE /\ last.op = "mark_all_as_read") =>
        LET pre == last.pre
            mine(id) == last.recipient = NoRecipient
                        \/ pre[id].recipient = last.recipient.id
            again == update(MarkAllAsReadSet(last.qs, last.recipient), "unread", FALSE)
        IN  /\ DOMAIN rows = DOMAIN pre
            /\ \A id \in last.qs :
                   (pre[id].unread = TRUE /\ pre[id].deleted = FALSE /\ mine(id))
                       => rows[id].unread = FALSE
            /\ \A id \in DOMAIN pre : pre[id].unread = FALSE => rows[id] = pre[id]
            /\ \A id \in FlippedToRead : id \in last.qs /\ mine(id)
            /\ last.count = Cardinality(FlippedToRead)
            /\ again.count = 0
            /\ again.rows = rows

\* C2's case: a recipient is passed, a row is flipped and an unread row of
\* another recipient is in the queryset.
C2_Witness ==
    /\ SOFT_DELETE
    /\ last.op = "mark_all_as_read"
    /\ last.recipient # NoRecipient
    /\ last.count >= 1
    /\ \E id \in last.qs : /\ last.pre[id].unread = TRUE
                           /\ last.pre[id].recipient # last.recipient.id

\* C3: unread(include_deleted) and read(include_deleted) return the rows of
\* the queryset they are called on with the matching unread flag, without the
\* deleted rows when soft-delete mode is on and include_deleted is false, and
\* whatever the deleted flag otherwise; unread() and read() are disjoint.
C3_UnreadReadScopes ==
    /\ last.op \in {"unread", "read"} =>
           LET flag == (last.op = "unread")
               hide == SOFT_DELETE /\ ~last.include_deleted
           IN  /\ last.result \subseteq last.qs
               /\ last.result = {id \in last.qs :
                                    /\ rows[id].unread = flag
                                    /\ (hide => rows[id].deleted = FALSE)}
    /\ \A qs \in BaseQuerySets : \A i, j \in BOOLEAN :
           unread(qs, i) \cap read(qs, j) = {}

\* C3's case: soft-delete mode is on, unread() is asked without the deleted
\* rows, and the queryset holds an unread row that is deleted and one that is
\* not.
C3_Witness ==
    /\ SOFT_DELETE
    /\ last.op = "unread"
    /\ ~last.include_deleted
    /\ last.result # {}
    /\ \E id \in last.qs : rows[id].unread = TRUE /\ rows[id].deleted = TRUE

SoftDeleteOnly == {"deleted", "active", "mark_all_as_deleted", "mark_all_as_active"}

\* C4: with soft-delete mode off each of deleted(), active(),
\* mark_all_as_deleted() and mark_all_as_active() raises ImproperlyConfigured
\* and leaves every row unchanged; with it on none of them raises.
C4_SoftDeleteGate ==
    last.op \in SoftDeleteOnly =>
        /\ ~SOFT_DELETE => (last.error = "ImproperlyConfigured" /\ rows = last.pre)
        /\ SOFT_DELETE => last.error = None

\* C4's case: mark_all_as_deleted() on a queryset that holds rows, with the
\* mode off.
C4_Witness ==
    /\ ~SOFT_DELETE
    /\ last.op = "mark_all_as_deleted"
    /\ last.qs # {}
    /\ last.error = "ImproperlyConfigured"

---------------------------------------------------------------------------
(* Claims about the views.                                                 *)

\* The last operation was the view op, asked by a logged-in user with a slug.
SlugRequest(op) ==
    last.op = op /\ last.user.is_authenticated /\ last.slug # << >>
\* The row the slug of the last request names was stored and was the user's.
OwnsTarget ==
    /\ slug2id(last.slug[1]) \in DOMAIN last.pre
    /\ last.pre[slug2id(last.slug[1])].recipient = last.user.id
\* Every row but id is as it was, and no row has appeared.
OthersUntouched(id) ==
    /\ DOMAIN rows \subseteq DOMAIN last.pre
    /\ \A other \in (DOMAIN last.pre) \ {id} :
           other \in DOMAIN rows /\ rows[other] = last.pre[other]

\* C5: the delete endpoint, asked by the recipient of a stored notification:
\* with soft-delete mode on the row stays with deleted=true and its other
\* fields unchanged, with the mode off the row is gone; in both modes no other
\* row is changed or removed.
C5_DeleteView ==
    (SlugRequest("delete") /\ OwnsTarget) =>
        LET id == slug2id(last.slug[1])
        IN  /\ SOFT_DELETE => /\ id \in DOMAIN rows
                              /\ rows[id] = [last.pre[id] EXCEPT !.deleted = TRUE]
            /\ ~SOFT_DELETE => id \notin DOMAIN rows
            /\ OthersUntouched(id)

\* C5's case: the recipient deletes one of two stored rows.
C5_Witness ==
    /\ SlugRequest("delete")
    /\ OwnsTarget
    /\ last.response = "redirect"
    /\ Cardinality(DOMAIN last.pre) = 2

\* C6: the delete-all endpoint, asked by a logged-in user u, answers with a
\* redirect; with soft-delete mode on every row of u ends with deleted=true,
\* with the mode off every row of u is removed; the rows of other recipients
\* are untouched.
C6_DeleteAllView ==
    (last.op = "delete_all" /\ last.user.is_authenticated) =>
        LET pre == last.pre
            mine == {id \in DOMAIN pre : pre[id].recipient = last.user.id}
        IN  /\ last.response = "redirect"
            /\ SOFT_DELETE => \A id \in mine : id \in DOMAIN rows /\ rows[id].deleted = TRUE
            /\ ~SOFT_DELETE => mine \cap DOMAIN rows = {}
            /\ \A id \in (DOMAIN pre) \ mine : id \in DOMAIN rows /\ rows[id] = pre[id]

\* C7: the "all" list view of a logged-in user u returns exactly the
\* notifications whose recipient is u, newest first, and with soft-delete mode
\* on only those of them with deleted=false; it raises no error in either
\* mode.
C7_AllList ==
    (last.op = "all" /\ last.user.is_authenticated) =>
        LET listed == last.result
            expected == {id \in DOMAIN rows :
                            /\ rows[id].recipient = last.user.id
                            /\ (SOFT_DELETE => rows[id].deleted = FALSE)}
        IN  /\ last.response = "ok"
            /\ Range(listed) = expected
            /\ Len(listed) = Cardinality(expected)
            /\ \A i, j \in 1..Len(listed) :
                   i < j => rows[listed[i]].timestamp >= rows[listed[j]].timestamp

\* C8: mark-one-read, mark-one-unread and delete, asked by a logged-in user u
\* with slug s, take effect on the notification slug2id(s) if and only if it
\* is stored and its recipient is u (read leaves unread=false, unread leaves
\* unread=true); otherwise the answer is not-found and no row is changed.
C8_SlugActions ==
    \A op \in {"mark_as_read", "mark_as_unread", "delete"} :
        SlugRequest(op) =>
            LET id == slug2id(last.slug[1])
            IN  IF OwnsTarget
                THEN /\ last.response = "redirect"
                     /\ op = "mark_as_read" =>
                            id \in DOMAIN rows /\ rows[id].unread = FALSE
                     /\ op = "mark_as_unread" =>
                            id \in DOMAIN rows /\ rows[id].unread = TRUE
                     /\ op = "delete" =>
                            IF SOFT_DELETE
                            THEN id \in DOMAIN rows /\ rows[id].deleted = TRUE
                            ELSE id \notin DOMAIN rows
                ELSE last.response = "Http404" /\ rows = last.pre

---------------------------------------------------------------------------
(* The slugs alone: an id is turned into its slug, the slug back into an   *)
(* id, and that id into a slug again.                                      *)

ToSlug(notification_id) ==
    /\ last.op = "startup"
    /\ last' = [op |-> "id2slug", notification_id |-> notification_id,
                slug |-> id2slug(notification_id), pre |-> rows]
    /\ UNCHANGED <<SOFT_DELETE, EXTRA_DATA, rows, next_id, now>>

ToId ==
    /\ last.op = "id2slug"
    /\ last' = [op |-> "slug2id", given_id |-> last.notification_id,
                slug |-> last.slug, notification_id |-> slug2id(last.slug),
                pre |-> rows]
    /\ UNCHANGED <<SOFT_DELETE, EXTRA_DATA, rows, next_id, now>>

ToSlugAgain ==
    /\ last.op = "slug2id"
    /\ last' = [op |-> "id2slug_again", given_id |-> last.given_id,
                given_slug |-> last.slug, notification_id |-> last.notification_id,
                slug |-> id2slug(last.notification_id), pre |-> rows]
    /\ UNCHANGED <<SOFT_DELETE, EXTRA_DATA, rows, next_id, now>>

SlugNext == (\E notification_id \in 0..MaxSlugId : ToSlug(notification_id)) \/ ToId \/ ToSlugAgain
SlugSpec == PayloadOff /\ [][SlugNext]_vars

\* C10: id2slug and slug2id are mutual inverses: slug2id(id2slug(id)) = id for
\* every non-negative id, id2slug(slug2id(slug)) = slug for every slug that
\* id2slug produced, id2slug(id) = id + 110909, and distinct ids give distinct
\* slugs.
C10_SlugRoundTrip ==
    /\ last.op = "id2slug" => last.slug = last.notification_id + 110909
    /\ last.op = "slug2id" => last.notification_id = last.given_id
    /\ last.op = "id2slug_again" => last.slug = last.given_slug
    /\ \A i, j \in 0..MaxSlugId : i # j => id2slug(i) # id2slug(j)

\* C10's case: an id above 0 went to its slug, back and to the slug again.
C10_Witness ==
    /\ last.op = "id2slug_again"
    /\ last.given_id > 0
    /\ last.given_slug = id2slug(last.given_id)

---------------------------------------------------------------------------
(* Recipient isolation of the views.                                       *)

ViewOps ==
    {"all", "unread_list", "mark_all_as_read_view", "delete_all",
     "mark_as_read", "mark_as_unread", "delete",
     "live_unread_notification_count", "live_unread_notification_list",
     "live_all_notification_list", "live_all_notification_count"}

\* C13: a view request of user u leaves every notification whose recipient is
\* another user stored exactly as it was, unread, deleted and emailed
\* included, and changes the recipient of no row; so the same is true of any
\* sequence of requests of u.
C13_RecipientIsolation ==
    last.op \in ViewOps =>
        /\ \A id \in DOMAIN last.pre :
               last.pre[id].recipient # last.user.id
                   => /\ id \in DOMAIN rows
                      /\ rows[id] = last.pre[id]
        /\ \A id \in (DOMAIN last.pre) \cap (DOMAIN rows) :
               rows[id].recipient = last.pre[id].recipient

\* C13's case: a request of a user changed the table while it held an
\* unread, emailed row of another user.
C13_Witness ==
    /\ last.op \in ViewOps
    /\ rows # last.pre
    /\ \E id \in DOMAIN last.pre :
           /\ last.pre[id].recipient # last.user.id
           /\ last.pre[id].unread
           /\ last.pre[id].emailed


---------------------------------------------------------------------------
(* The bulk mutators and the flags.                                        *)

BulkOps ==
    {"mark_all_as_read", "mark_all_as_unread", "mark_all_as_deleted",
     "mark_all_as_active", "mark_as_unsent", "mark_as_sent"}

\* The flag a bulk mutator is there to write.
OwnFlag(op) ==
    IF op \in {"mark_all_as_read", "mark_all_as_unread"} THEN "unread"
    ELSE IF op \in {"mark_all_as_deleted", "mark_all_as_active"} THEN "deleted"
    ELSE "emailed"

\* The rows of the last call's queryset, of its recipient if one was given,
\* that had unread = value before the call, deleted or not.
UnreadWas(value) ==
    {id \in last.qs :
        /\ last.recipient # NoRecipient => last.pre[id].recipient = last.recipient.id
        /\ last.pre[id].unread = value}

\* C14: the bulk read/unread mutators ignore the deleted flag: with
\* soft-delete on, mark_all_as_read and mark_all_as_unread flip the
\* soft-deleted rows of the queryset too and count them; and no bulk mutator
\* adds or removes a row or changes any column but its own flag (unread for
\* read/unread, deleted for deleted/active, emailed for sent/unsent).
C14_BulkMutatorsAndFlags ==
    last.op \in BulkOps =>
        /\ DOMAIN rows = DOMAIN last.pre
        /\ \A id \in DOMAIN rows :
               [rows[id] EXCEPT ![OwnFlag(last.op)] = last.pre[id][OwnFlag(last.op)]]
                   = last.pre[id]
        /\ (SOFT_DELETE /\ last.op = "mark_all_as_read")
               => /\ \A id \in UnreadWas(TRUE) : rows[id].unread = FALSE
                  /\ last.count = Cardinality(UnreadWas(TRUE))
        /\ (SOFT_DELETE /\ last.op = "mark_all_as_unread")
               => /\ \A id \in UnreadWas(FALSE) : rows[id].unread = TRUE
                  /\ last.count = Cardinality(UnreadWas(FALSE))

\* C14's case: with soft-delete on, mark_all_as_read flipped and counted a
\* soft-deleted row, which stayed deleted.
C14_Witness ==
    /\ SOFT_DELETE
    /\ last.op = "mark_all_as_read"
    /\ last.count >= 1
    /\ \E id \in last.qs :
           /\ last.pre[id].deleted /\ last.pre[id].unread
           /\ rows[id].deleted /\ ~rows[id].unread

=============================================================================
